---- MODULE Spec2Model ----
(***************************************************************************)
(* A model of gnews/gnews.py: the GNews client (configuration, request URL *)
(* construction, per-entry URL resolution, website exclusion filter).      *)
(*                                                                         *)
(* Python strings are sequences of one-character strings, so that          *)
(* formatting, case conversion, substring tests and regular expression     *)
(* matching are computed character by character, as the code computes      *)
(* them.  Python's None is the value NoneVal.                               *)
(***************************************************************************)
EXTENDS Integers, Sequences, FiniteSets, TLC

\* ------------------------------------------------------------------ bounds
\* longest feed (number of entries) the feed server serves
MaxEntries == 2
\* longest exclude_websites list given to the constructor in SpecFilter
MaxExclude == 2

\* ------------------------------------------------------- python primitives
\* None: a one-element sequence whose element is no character
NoneVal == <<"<None>">>

\* truth value of a str-or-None in `if x:`
Truthy(v) == v # NoneVal /\ v # <<>>

UpperCase ==
  <<"A","B","C","D","E","F","G","H","I","J","K","L","M",
    "N","O","P","Q","R","S","T","U","V","W","X","Y","Z">>
LowerCase ==
  <<"a","b","c","d","e","f","g","h","i","j","k","l","m",
    "n","o","p","q","r","s","t","u","v","w","x","y","z">>

\* str.lower()
Lower(s) ==
  [i \in 1..Len(s) |->
     IF \E k \in 1..26 : UpperCase[k] = s[i]
     THEN LowerCase[CHOOSE k \in 1..26 : UpperCase[k] = s[i]]
     ELSE s[i]]

\* str.upper()
Upper(s) ==
  [i \in 1..Len(s) |->
     IF \E k \in 1..26 : LowerCase[k] = s[i]
     THEN UpperCase[CHOOSE k \in 1..26 : LowerCase[k] = s[i]]
     ELSE s[i]]

\* `sub in s` for strings
Contains(sub, s) ==
  \E i \in 1..(Len(s) - Len(sub) + 1) : SubSeq(s, i, i + Len(sub) - 1) = sub

\* "%20".join(key.split(" ")): every space becomes %20
RECURSIVE JoinSplit(_)
JoinSplit(key) ==
  IF key = <<>> THEN <<>>
  ELSE (IF Head(key) = " " THEN <<"%","2","0">> ELSE <<Head(key)>>) \o JoinSplit(Tail(key))

\* dict.get(key, default) on a table given as a set of <<key, value>> pairs
DictGet(table, key, default) ==
  IF \E kv \in table : kv[1] = key
  THEN (CHOOSE kv \in table : kv[1] = key)[2]
  ELSE default

\* ------------------------------------------------------ regular expressions
\* re.match(pattern, s) for the patterns the constructor builds: literals,
\* "^", ".", ".*" and optional groups "(...)?" without nesting.  re.match
\* anchors at the start of s and accepts any prefix match.
GroupEnd(pat, p) == CHOOSE q \in (p + 1)..Len(pat) :
                       pat[q] = ")" /\ \A r \in (p + 1)..(q - 1) : pat[r] # ")"

RECURSIVE ReMatchAt(_, _, _, _)
ReMatchAt(pat, s, p, i) ==
  IF p > Len(pat) THEN TRUE
  ELSE LET c    == pat[p]
           star == p < Len(pat) /\ pat[p + 1] = "*"
           opt  == p < Len(pat) /\ pat[p + 1] = "?"
       IN  CASE c = "^" -> i = 1 /\ ReMatchAt(pat, s, p + 1, i)
             [] c = "(" -> \/ ReMatchAt(pat, s, p + 1, i)
                           \/ ReMatchAt(pat, s, GroupEnd(pat, p) + 2, i)
             [] c = ")" -> ReMatchAt(pat, s, p + (IF opt THEN 2 ELSE 1), i)
             [] c = "." /\ star ->
                  \E k \in i..(Len(s) + 1) :
                     /\ \A j \in i..(k - 1) : s[j] # "\n"
                     /\ ReMatchAt(pat, s, p + 2, k)
             [] c = "." /\ ~star ->
                  i <= Len(s) /\ s[i] # "\n" /\ ReMatchAt(pat, s, p + 1, i + 1)
             [] OTHER ->
                  i <= Len(s) /\ s[i] = c /\ ReMatchAt(pat, s, p + 1, i + 1)

ReMatch(pat, s) == ReMatchAt(pat, s, 1, 1)

\* ---------------------------------------------------------------- constants
TOPICS ==
  << <<"W","O","R","L","D">>, <<"N","A","T","I","O","N">>, <<"B","U","S","I","N","E","S","S">>, <<"T","E","C","H","N","O","L","O","G","Y">>,
     <<"E","N","T","E","R","T","A","I","N","M","E","N","T">>, <<"S","P","O","R","T","S">>, <<"S","C","I","E","N","C","E">>, <<"H","E","A","L","T","H">> >>

BASE_URL == <<"h","t","t","p","s",":","/","/","n","e","w","s",".","g","o","o","g","l","e",".","c","o","m","/","r","s","s">>

\* the aggregator host _get_url looks for
AGGREGATOR == <<"n","e","w","s",".","g","o","o","g","l","e",".","c","o","m">>

DefaultLanguage == <<"e","n">>
DefaultCountry == <<"U","S">>
DefaultMaxResults == 100

\* gnews/utils/constants.py: name -> canonical code (a sample of the tables)
AVAILABLE_LANGUAGES == { << <<"e","n","g","l","i","s","h">>, <<"e","n">> >>, << <<"f","r","e","n","c","h">>, <<"f","r">> >> }
AVAILABLE_COUNTRIES == { << <<"U","n","i","t","e","d"," ","S","t","a","t","e","s">>, <<"U","S">> >>, << <<"F","r","a","n","c","e">>, <<"F","R">> >> }

\* ------------------------------------------------------------------- state
VARIABLES
  _language,                 \* self._language
  _country,                  \* self._country
  _max_results,              \* self._max_results
  _period,                   \* self._period (a string or None)
  _exclude_website_regexes,  \* self._exclude_website_regexes
  feed,       \* environment: the entries the feed server serves
  head,       \* environment: what a HEAD request to a URL does
  op,         \* the operation called last
  arg,        \* its argument
  call,       \* the last query's run: requestUrl (the URL given to
              \* feedparser.parse, None when nothing was fetched), heads (the
              \* HEAD requests in order, <<entry index, url>>), resolved (the
              \* URLs _get_url returned), news (the list built), raised
  raised,     \* whether the last operation propagated an exception
  returned,   \* the value the last query that returned gave its caller
  assigned    \* history: the value last assigned to language, country, period

config == <<_language, _country, _max_results, _period, _exclude_website_regexes>>
world == <<feed, head>>
observed == <<call, raised, returned>>
vars == <<config, world, op, arg, observed, assigned>>

\* ---------------------------------------------------------------- the world
LinkAgg == <<"h","t","t","p","s",":","/","/","n","e","w","s",".","g","o","o","g","l","e",".","c","o","m","/","a">>
LinkRef == <<"h","t","t","p",":","/","/","x",".","i","o","/","n","e","w","s",".","g","o","o","g","l","e",".","c","o","m">>
LinkOk == <<"h","t","t","p",":","/","/","o","k",".","i","o","/","1">>
LinkBad == <<"h","t","t","p","s",":","/","/","w","w","w",".","b","a","d",".","i","o","/","2">>
LocBad == <<"h","t","t","p",":","/","/","b","a","d",".","i","o","/","3">>

Links == {LinkAgg, LinkRef, LinkOk, LinkBad}

\* a feed entry has a title and, unless the feed omits it, a link
EntryTitle(i) == <<"t">> \o <<(<<"1","2","3","4","5","6","7","8","9">>)[i]>>
MkFeed(links) ==
  [i \in 1..Len(links) |->
     IF links[i] = NoneVal THEN [title |-> EntryTitle(i)]
     ELSE [title |-> EntryTitle(i), link |-> links[i]]]
Feeds ==
  UNION { { MkFeed(f) : f \in [1..n -> Links \cup {NoneVal}] } : n \in 0..MaxEntries }

\* a HEAD request raises, or answers with or without a Location header
HeadOutcomes ==
  { [raises |-> TRUE, location |-> NoneVal],
    [raises |-> FALSE, location |-> NoneVal],
    [raises |-> FALSE, location |-> LocBad] }
Heads == [{LinkAgg, LinkRef} -> HeadOutcomes]

DemoFeed == MkFeed(<<LinkOk, LinkAgg, LinkBad>>)
DemoHead == [u \in {LinkAgg, LinkRef} |-> [raises |-> FALSE, location |-> LocBad]]

\* ------------------------------------------------------------------ methods
\* __init__: the pattern built from one excluded website
ExcludeRegex(website) == <<"^","h","t","t","p","(","s",")","?",":","/","/","(","w","w","w",".",")","?">> \o Lower(website) \o <<".","*">>

\* no feed fetched, no HEAD request issued
NoCall == [requestUrl |-> NoneVal, raised |-> FALSE, heads |-> <<>>, resolved |-> <<>>, news |-> <<>>]

\* __init__
Construct(language, country, max_results, period, exclude_websites) ==
  /\ _max_results = max_results
  /\ _language = language
  /\ _country = country
  /\ _exclude_website_regexes =
       [k \in 1..Len(exclude_websites) |-> ExcludeRegex(exclude_websites[k])]
  /\ _period = period
  /\ assigned = [language |-> language, country |-> country, period |-> period]
  /\ op = "__init__"
  /\ arg = NoneVal
  /\ call = NoCall
  /\ raised = FALSE
  /\ returned = [kind |-> "nothing", value |-> NoneVal]

\* _ceid()
CeidSwapped ==
  IF Truthy(_period)
  THEN <<"w","h","e","n","%","3","A">> \o _period \o <<"&","c","e","i","d","=">> \o _language \o <<":">> \o _country
         \o <<"&","h","l","=">> \o _language \o <<"&","g","l","=">> \o _country
  ELSE <<"&","c","e","i","d","=">> \o _language \o <<":">> \o _country
         \o <<"&","h","l","=">> \o _language \o <<"&","g","l","=">> \o _country
_ceid ==
  IF Truthy(_period)
  THEN <<"w","h","e","n","%","3","A">> \o _period \o <<"&","c","e","i","d","=">> \o _country \o <<":">> \o _language
         \o <<"&","h","l","=">> \o _language \o <<"&","g","l","=">> \o _country
  ELSE <<"&","c","e","i","d","=">> \o _country \o <<":">> \o _language
         \o <<"&","h","l","=">> \o _language \o <<"&","g","l","=">> \o _country

\* an operation that is no query leaves the last query's outcome alone
NoQuery(name, a) ==
  /\ op' = name
  /\ arg' = a
  /\ raised' = FALSE
  /\ UNCHANGED <<call, returned, world>>

\* language.setter
LanguageSetterRaw(language) ==
  /\ _language' = language
  /\ assigned' = [assigned EXCEPT !.language = DictGet(AVAILABLE_LANGUAGES, language, language)]
  /\ NoQuery("language.setter", language)
  /\ UNCHANGED <<_country, _max_results, _period, _exclude_website_regexes>>
language_setter(language) ==
  /\ _language' = DictGet(AVAILABLE_LANGUAGES, language, language)
  /\ assigned' = [assigned EXCEPT !.language = DictGet(AVAILABLE_LANGUAGES, language, language)]
  /\ NoQuery("language.setter", language)
  /\ UNCHANGED <<_country, _max_results, _period, _exclude_website_regexes>>

\* max_results.setter
max_results_setter(size) ==
  /\ _max_results' = size
  /\ NoQuery("max_results.setter", size)
  /\ UNCHANGED <<_language, _country, _period, _exclude_website_regexes, assigned>>

\* period.setter
period_setter(period) ==
  /\ _period' = period
  /\ assigned' = [assigned EXCEPT !.period = period]
  /\ NoQuery("period.setter", period)
  /\ UNCHANGED <<_language, _country, _max_results, _exclude_website_regexes>>

\* country.setter
CountrySetterResetsPeriod(country) ==
  /\ _country' = DictGet(AVAILABLE_COUNTRIES, country, country)
  /\ _period' = NoneVal
  /\ assigned' = [assigned EXCEPT !.country = DictGet(AVAILABLE_COUNTRIES, country, country)]
  /\ NoQuery("country.setter", country)
  /\ UNCHANGED <<_language, _max_results, _exclude_website_regexes>>
country_setter(country) ==
  /\ _country' = DictGet(AVAILABLE_COUNTRIES, country, country)
  /\ assigned' = [assigned EXCEPT !.country = DictGet(AVAILABLE_COUNTRIES, country, country)]
  /\ NoQuery("country.setter", country)
  /\ UNCHANGED <<_language, _max_results, _period, _exclude_website_regexes>>

\* item.get(key, default) on a feed entry
ItemGet(item, key, default) == IF key \in DOMAIN item THEN item[key] ELSE default

\* requests.head(url): the environment's answer; a URL the environment says
\* nothing about answers without a Location header
RequestsHead(url) ==
  IF url \in DOMAIN head THEN head[url] ELSE [raises |-> FALSE, location |-> NoneVal]

\* the test that decides whether _get_url issues a HEAD request
NeedsHead(url) == Contains(AGGREGATOR, url)

\* _get_url(item): the URL, the HEAD requests issued, whether one raised
_get_url(item) ==
  LET url == ItemGet(item, "link", <<>>)
  IN  IF NeedsHead(url)
      THEN LET r == RequestsHead(url)
           IN  IF r.raises
               THEN [raised |-> TRUE, url |-> url, requested |-> <<url>>]
               ELSE [raised |-> FALSE,
                     url |-> IF r.location = NoneVal THEN url ELSE r.location,
                     requested |-> <<url>>]
      ELSE [raised |-> FALSE, url |-> url, requested |-> <<>>]

\* _process(item, url): the record's title and url (description, published
\* date and publisher are passed through in the same way)
_process(item, url) == [title |-> ItemGet(item, "title", <<>>), url |-> url]

\* is_allowed_website(url, blacklisted_websites)
is_allowed_website(url, blacklisted_websites) ==
  \A k \in 1..Len(blacklisted_websites) : ~ReMatch(blacklisted_websites[k], url)

\* _get_news: the body of the loop, for one entry and its resolved URL
LoopBodyTestsLink(entry, url, news) ==
  IF is_allowed_website(ItemGet(entry, "link", <<>>), _exclude_website_regexes)
  THEN Append(news, _process(entry, url))
  ELSE news
LoopBodyTruncates(entry, url, news) ==
  IF is_allowed_website(url, _exclude_website_regexes) /\ Len(news) < _max_results
  THEN Append(news, _process(entry, url))
  ELSE news
LoopBody(entry, url, news) ==
  IF is_allowed_website(url, _exclude_website_regexes)
  THEN Append(news, _process(entry, url))
  ELSE news

\* _get_news: the loop over feedparser.parse(url).entries, from entry i on
RECURSIVE GetNewsLoop(_, _, _, _, _)
GetNewsLoop(entries, i, news, log, urls) ==
  IF i > Len(entries)
  THEN [raised |-> FALSE, news |-> news, heads |-> log, resolved |-> urls]
  ELSE LET r == _get_url(entries[i])
           log2 == log \o [k \in 1..Len(r.requested) |-> <<i, r.requested[k]>>]
       IN  IF r.raised
           THEN [raised |-> TRUE, news |-> news, heads |-> log2, resolved |-> urls]
           ELSE GetNewsLoop(entries, i + 1, LoopBody(entries[i], r.url, news),
                            log2, Append(urls, r.url))

\* _get_news(url): fetch, resolve, filter, normalize; an exception of
\* requests.head leaves through the caller
_get_news(url) ==
  /\ call' = [requestUrl |-> url] @@ GetNewsLoop(feed, 1, <<>>, <<>>, <<>>)
  /\ raised' = call'.raised
  /\ returned' = IF raised' THEN returned ELSE [kind |-> "list", value |-> call'.news]

\* a query that returns without fetching
ReturnWithoutFetch(kind, value) ==
  /\ call' = NoCall
  /\ raised' = FALSE
  /\ returned' = [kind |-> kind, value |-> value]

\* get_news(key)
get_news(key) ==
  /\ op' = "get_news"
  /\ arg' = key
  /\ IF Truthy(key)
     THEN _get_news(BASE_URL \o <<"/","s","e","a","r","c","h","?","q","=">> \o JoinSplit(key) \o _ceid)
     ELSE ReturnWithoutFetch("None", NoneVal)
  /\ UNCHANGED <<config, world, assigned>>

\* get_top_news()
get_top_news ==
  /\ op' = "get_top_news"
  /\ arg' = NoneVal
  /\ _get_news(BASE_URL \o <<"?">> \o _ceid)
  /\ UNCHANGED <<config, world, assigned>>

\* `topic in TOPICS`
TopicAlwaysValid(topic) == TRUE
TopicInTopics(topic) == \E k \in 1..Len(TOPICS) : TOPICS[k] = topic

\* get_news_by_topic(topic)
get_news_by_topic(topic) ==
  /\ op' = "get_news_by_topic"
  /\ arg' = topic
  /\ IF TopicInTopics(Upper(topic))
     THEN _get_news(BASE_URL \o <<"/","h","e","a","d","l","i","n","e","s","/","s","e","c","t","i","o","n","/","t","o","p","i","c","/">> \o Upper(topic)
                      \o <<"?">> \o _ceid)
     ELSE ReturnWithoutFetch("list", <<>>)
  /\ UNCHANGED <<config, world, assigned>>

\* get_news_by_location(location)
get_news_by_location(location) ==
  /\ op' = "get_news_by_location"
  /\ arg' = location
  /\ IF Truthy(location)
     THEN _get_news(BASE_URL \o <<"/","h","e","a","d","l","i","n","e","s","/","s","e","c","t","i","o","n","/","g","e","o","/">> \o location
                      \o <<"?">> \o _ceid)
     ELSE ReturnWithoutFetch("list", <<>>)
  /\ UNCHANGED <<config, world, assigned>>

\* GNews.is_allowed_website(url, self._exclude_website_regexes), called directly
IsAllowedCall(url) ==
  /\ op' = "is_allowed_website"
  /\ arg' = url
  /\ ReturnWithoutFetch("bool", is_allowed_website(url, _exclude_website_regexes))
  /\ UNCHANGED <<config, world, assigned>>

\* ------------------------------------------------------------------ inputs
LanguageInputs == { <<"f","r","e","n","c","h">>, <<"x","x">> }
CountryInputs == { <<"F","r","a","n","c","e">>, <<"Z","Z">> }
PeriodInputs == { NoneVal, <<"7","d">>, <<>> }
SizeInputs == { 1, DefaultMaxResults }
KeyInputs == { <<>>, <<"a"," ","b">> }
TopicInputs == { <<"w","o","r","l","d">>, <<"W","O","R","L","D">>, <<"n","o","p","e">>, <<>> }
LocationInputs == { <<>>, <<"u","k">> }

\* exclude_websites lists given to the constructor
ExcludeChoices == { <<>>, << <<"b","a","d",".","i","o">> >>, << <<"x",".","i","o">>, <<"B","A","D",".","i","o">> >> }
FilterHosts == { <<"b","a","d",".","i","o">>, <<"B","a","d",".","i","o">> }
ExcludeLists == UNION { [1..n -> FilterHosts] : n \in 0..MaxExclude }

\* URLs given to is_allowed_website: scheme, optional www., host, path
UrlHosts == { <<"b","a","d",".","i","o">>, <<"B","a","d",".","i","o">>, <<"b","a","d",".","i","o","t","a",".","o","r","g">>, <<"b","a","d","x","i","o",".","c","o","m">>, <<"o","k",".","i","o">> }
FilterUrls ==
  { scheme \o www \o host \o path :
      scheme \in { <<"h","t","t","p",":","/","/">>, <<"h","t","t","p","s",":","/","/">> }, www \in { <<>>, <<"w","w","w",".">> },
      host \in UrlHosts, path \in { <<>>, <<"/","a">> } }

\* ---------------------------------------------------------- specifications
\* The client with default locale in one world, every operation enabled.
Init ==
  /\ \E period \in { NoneVal, <<"7","d">> } :
       Construct(DefaultLanguage, DefaultCountry, DefaultMaxResults, period, << <<"b","a","d",".","i","o">> >>)
  /\ feed = DemoFeed
  /\ head = DemoHead

Setters ==
  \/ \E language \in LanguageInputs : language_setter(language)
  \/ \E country \in CountryInputs : country_setter(country)
  \/ \E period \in PeriodInputs : period_setter(period)
  \/ \E size \in SizeInputs : max_results_setter(size)

Queries ==
  \/ \E key \in KeyInputs : get_news(key)
  \/ get_top_news
  \/ \E topic \in TopicInputs : get_news_by_topic(topic)
  \/ \E location \in LocationInputs : get_news_by_location(location)

Next == Setters \/ Queries

Spec == Init /\ [][Next]_vars

\* The queries of a client constructed in any world: every feed of at most
\* MaxEntries entries, every behaviour of the HEAD requests.
InitFeeds ==
  \E max_results \in SizeInputs, exclude_websites \in ExcludeChoices,
     f \in Feeds, h \in Heads :
       /\ Construct(DefaultLanguage, DefaultCountry, max_results, NoneVal, exclude_websites)
       /\ feed = f
       /\ head = h

SpecFeeds == InitFeeds /\ [][Queries]_vars

\* The website filter alone: every exclusion list of at most MaxExclude
\* hostnames, applied to every URL of FilterUrls.
InitFilter ==
  /\ \E exclude_websites \in ExcludeLists :
       Construct(DefaultLanguage, DefaultCountry, DefaultMaxResults, NoneVal, exclude_websites)
  /\ feed = <<>>
  /\ head = DemoHead

NextFilter == \E url \in FilterUrls : IsAllowedCall(url)

SpecFilter == InitFilter /\ [][NextFilter]_vars

\* ------------------------------------------------------------------ claims
QueryNames == {"get_news", "get_top_news", "get_news_by_topic", "get_news_by_location"}
\* the last operation was a query
IsQuery == op \in QueryNames
\* the last operation was a query that fetched the feed
Fetched == IsQuery /\ call.requestUrl # NoneVal
\* the link of entry i of the feed
LinkOf(i) == IF "link" \in DOMAIN feed[i] THEN feed[i].link ELSE <<>>
\* the host of a URL: what stands between "://" and the next "/"
HostOf(u) ==
  LET starts == { i \in 1..(Len(u) - 2) : SubSeq(u, i, i + 2) = <<":","/","/">> }
  IN  IF starts = {} THEN <<>>
      ELSE LET b == (CHOOSE i \in starts : \A j \in starts : i <= j) + 3
               stops == { j \in b..Len(u) : u[j] = "/" }
               e == IF stops = {} THEN Len(u)
                    ELSE (CHOOSE j \in stops : \A k \in stops : j <= k) - 1
           IN  SubSeq(u, b, e)
EndsWith(s, suffix) ==
  Len(suffix) <= Len(s) /\ SubSeq(s, Len(s) - Len(suffix) + 1, Len(s)) = suffix
\* url matches one of the exclusion patterns of the instance
Excluded(url) ==
  \E j \in 1..Len(_exclude_website_regexes) : ReMatch(_exclude_website_regexes[j], url)

\* C1: every record of a returned sequence has a url that matches none of
\* the exclusion patterns of the instance, and that url is the URL resolved
\* for the record's entry, not the entry's link.
C1_ReturnedUrlsAllowed ==
  returned.kind = "list" =>
    \A k \in 1..Len(returned.value) :
      /\ ~Excluded(returned.value[k].url)
      /\ (IsQuery /\ ~raised) =>
           \E i \in 1..Len(call.resolved) :
             /\ feed[i].title = returned.value[k].title
             /\ call.resolved[i] = returned.value[k].url
\* a query returned although it dropped an entry whose link is allowed and
\* whose resolved URL is excluded
C1_Witness ==
  /\ IsQuery /\ ~raised /\ returned.kind = "list"
  /\ \E i \in 1..Len(call.resolved) :
       /\ call.resolved[i] # LinkOf(i)
       /\ Excluded(call.resolved[i])
       /\ ~Excluded(LinkOf(i))
  /\ returned.value # <<>>

\* C2 (as claimed): is_allowed_website(U, patterns) is false exactly when
\* the host of U is H or www.H for a configured hostname H.
C2_FilterByHost ==
  op = "is_allowed_website" =>
    ( returned.value = FALSE <=>
        \E H \in FilterHosts :
          /\ \E j \in 1..Len(_exclude_website_regexes) :
               _exclude_website_regexes[j] = ExcludeRegex(H)
          /\ HostOf(arg) \in { H, <<"w","w","w",".">> \o H } )

\* C3 (as claimed): a failing HEAD request is never propagated, the entry's
\* resolved URL is then its link, and every entry of the feed is processed.
C3_HeadFailureRecovered ==
  Fetched =>
    /\ ~raised
    /\ Len(call.resolved) = Len(feed)
    /\ \A k \in 1..Len(call.heads) :
         RequestsHead(call.heads[k][2]).raises =>
           call.resolved[call.heads[k][1]] = LinkOf(call.heads[k][1])

\* C4 (as claimed): search with an empty term returns an empty sequence,
\* raises nothing and fetches nothing.
C4_EmptyTermReturnsEmptyList ==
  (op = "get_news" /\ arg = <<>>) =>
    /\ returned = [kind |-> "list", value |-> <<>>]
    /\ ~raised
    /\ call = NoCall

\* C5: by_topic with a topic whose upper-cased form is no valid topic, and
\* by_location with an empty location, return an empty sequence and issue
\* no feed fetch and no HEAD request, whatever the configuration.
C5_InvalidInputNoFetch ==
  /\ (op = "get_news_by_topic" /\ \A k \in 1..Len(TOPICS) : Upper(arg) # TOPICS[k]) =>
       /\ returned = [kind |-> "list", value |-> <<>>]
       /\ ~raised
       /\ call.requestUrl = NoneVal /\ call.heads = <<>>
  /\ (op = "get_news_by_location" /\ arg = <<>>) =>
       /\ returned = [kind |-> "list", value |-> <<>>]
       /\ ~raised
       /\ call.requestUrl = NoneVal /\ call.heads = <<>>
\* an invalid topic was given to an instance whose locale and period were changed
C5_Witness ==
  /\ op = "get_news_by_topic" /\ arg = <<"n","o","p","e">>
  /\ _language = <<"f","r">> /\ _period = <<"7","d">>
  /\ feed # <<>>

\* the suffix as the claim states it, and as amended
C6_SuffixClaimed(p, c, l) ==
  IF p # NoneVal
  THEN <<"w","h","e","n",":">> \o p \o <<"&","c","e","i","d","=">> \o c \o <<":">> \o l \o <<"&","h","l","=">> \o l \o <<"&","g","l","=">> \o c
  ELSE <<"&","c","e","i","d","=">> \o c \o <<":">> \o l \o <<"&","h","l","=">> \o l \o <<"&","g","l","=">> \o c
C6_SuffixAmended(p, c, l) ==
  IF p # NoneVal /\ p # <<>>
  THEN <<"w","h","e","n","%","3","A">> \o p \o <<"&","c","e","i","d","=">> \o c \o <<":">> \o l \o <<"&","h","l","=">> \o l \o <<"&","g","l","=">> \o c
  ELSE <<"&","c","e","i","d","=">> \o c \o <<":">> \o l \o <<"&","h","l","=">> \o l \o <<"&","g","l","=">> \o c

\* C6 (as claimed): the request URL of every query that fetches ends with
\* when:P&ceid=C:L&hl=L&gl=C when a period is set, with &ceid=C:L&hl=L&gl=C
\* otherwise.
C6_SuffixAsClaimed ==
  Fetched => EndsWith(call.requestUrl, C6_SuffixClaimed(_period, _country, _language))

\* C6 (amended): the request URL of every query that fetches ends with
\* when%3AP&ceid=C:L&hl=L&gl=C when the period is a non-empty string, with
\* &ceid=C:L&hl=L&gl=C when it is None or empty; period 7d, language en,
\* country US give exactly when%3A7d&ceid=US:en&hl=en&gl=US; top headlines
\* request the base URL, "?" and the suffix.
C6_SuffixPercentEncoded ==
  Fetched =>
    /\ EndsWith(call.requestUrl, C6_SuffixAmended(_period, _country, _language))
    /\ (_period = <<"7","d">> /\ _language = <<"e","n">> /\ _country = <<"U","S">>) =>
         EndsWith(call.requestUrl, <<"w","h","e","n","%","3","A","7","d","&","c","e","i","d","=","U","S",":","e","n","&","h","l","=","e","n","&","g","l","=","U","S">>)
    /\ op = "get_top_news" =>
         call.requestUrl = BASE_URL \o <<"?">> \o C6_SuffixAmended(_period, _country, _language)
\* a query fetched with a period and a locale that setters assigned
C6_Witness ==
  /\ Fetched
  /\ _period = <<"7","d">> /\ _language = <<"f","r">> /\ _country = <<"F","R">>

\* C7: after language (country) is assigned a key of the language (country)
\* table the getter returns the mapped code, after it is assigned any other
\* string the getter returns that string, and the assignment raises nothing.
C7_SetterRoundTrip ==
  /\ op = "language.setter" =>
       /\ ~raised
       /\ \A kv \in AVAILABLE_LANGUAGES : arg = kv[1] => _language = kv[2]
       /\ (\A kv \in AVAILABLE_LANGUAGES : arg # kv[1]) => _language = arg
  /\ op = "country.setter" =>
       /\ ~raised
       /\ \A kv \in AVAILABLE_COUNTRIES : arg = kv[1] => _country = kv[2]
       /\ (\A kv \in AVAILABLE_COUNTRIES : arg # kv[1]) => _country = arg
\* language was assigned the name french and reads back as fr
C7_Witness == op = "language.setter" /\ arg = <<"f","r","e","n","c","h">> /\ _language = <<"f","r">>

\* the request URL of a query, from the operation, its argument and a locale
C8_Url(name, a, p, c, l) ==
  CASE name = "get_news" ->
         BASE_URL \o <<"/","s","e","a","r","c","h","?","q","=">> \o JoinSplit(a) \o C6_SuffixAmended(p, c, l)
    [] name = "get_top_news" ->
         BASE_URL \o <<"?">> \o C6_SuffixAmended(p, c, l)
    [] name = "get_news_by_topic" ->
         BASE_URL \o <<"/","h","e","a","d","l","i","n","e","s","/","s","e","c","t","i","o","n","/","t","o","p","i","c","/">> \o Upper(a) \o <<"?">>
           \o C6_SuffixAmended(p, c, l)
    [] name = "get_news_by_location" ->
         BASE_URL \o <<"/","h","e","a","d","l","i","n","e","s","/","s","e","c","t","i","o","n","/","g","e","o","/">> \o a \o <<"?">> \o C6_SuffixAmended(p, c, l)

C8_Step ==
  /\ (op' \in QueryNames /\ call'.requestUrl # NoneVal) =>
       call'.requestUrl =
         C8_Url(op', arg', assigned.period, assigned.country, assigned.language)
  /\ op' = "language.setter" =>
       UNCHANGED <<_country, _period, _max_results, _exclude_website_regexes, returned>>
  /\ op' = "country.setter" =>
       UNCHANGED <<_language, _period, _max_results, _exclude_website_regexes, returned>>
  /\ op' = "period.setter" =>
       UNCHANGED <<_language, _country, _max_results, _exclude_website_regexes, returned>>
  /\ op' = "max_results.setter" =>
       UNCHANGED <<_language, _country, _period, _exclude_website_regexes, returned>>

\* C8: every query builds its request URL from the language, country and
\* period assigned last before it (the constructor's where none was), and an
\* assignment changes no other field, not the exclusion patterns, and no
\* result already returned.
C8_LatestAssignmentsUsed == [][C8_Step]_vars
\* a query fetched after language, country and period were all assigned,
\* and returned records
C8_Witness ==
  /\ Fetched /\ ~raised
  /\ assigned = [language |-> <<"f","r">>, country |-> <<"Z","Z">>, period |-> <<>>]
  /\ returned.kind = "list" /\ returned.value # <<>>

\* the records of the entries whose resolved URL is allowed, in feed order
RECURSIVE C9_AllowedFrom(_)
C9_AllowedFrom(i) ==
  IF i > Len(feed) THEN <<>>
  ELSE (IF Excluded(call.resolved[i]) THEN <<>>
        ELSE << [title |-> feed[i].title, url |-> call.resolved[i]] >>)
       \o C9_AllowedFrom(i + 1)

\* C9: a query that fetches and returns gives exactly the records of the
\* entries whose resolved URL is allowed, in the order of the feed, however
\* many they are and whatever max_results is.
C9_OrderPreservingSubsequence ==
  (Fetched /\ ~raised) =>
    /\ Len(call.resolved) = Len(feed)
    /\ returned = [kind |-> "list", value |-> C9_AllowedFrom(1)]
\* two records were returned, in feed order, by an instance whose max_results is 1
C9_Witness ==
  /\ Fetched /\ ~raised
  /\ returned.kind = "list" /\ Len(returned.value) > _max_results
  /\ Len(returned.value) >= 2

\* C10 (as claimed): an entry whose link's host is not the aggregator host
\* gets no HEAD request and resolves to its link; an entry gets at most one
\* HEAD request.
C10_HeadOnlyForAggregatorHost ==
  Fetched =>
    /\ \A i \in 1..Len(feed) :
         HostOf(LinkOf(i)) # AGGREGATOR =>
           /\ \A k \in 1..Len(call.heads) : call.heads[k][1] # i
           /\ i <= Len(call.resolved) => call.resolved[i] = LinkOf(i)
    /\ \A k, m \in 1..Len(call.heads) :
         call.heads[k][1] = call.heads[m][1] => k = m

====
